---- MODULE Spec2Model ----
(***************************************************************************)
(* A model of cmd/grpcurl/grpcurl.go: the target resolver (parseTarget),   *)
(* the transport negotiation and the exit paths of main, and the composite *)
(* descriptor source.                                                      *)
(*                                                                         *)
(* Strings that the program takes apart (the target address) are sequences *)
(* of tokens: a token stands for a run of letters ("http", "h"), a run of  *)
(* digits ("1") or one punctuation character (":", "/", "[", ...).         *)
(***************************************************************************)
EXTENDS Integers, Sequences, FiniteSets, TLC

VARIABLES
    args,         \* flags.Args(): the positional arguments still to be consumed
    fl,           \* the parsed command-line flags the run reads more than once
    pc,           \* the position of main
    target,       \* main's target
    parsedAddr,   \* main's parsedAddr (NilTarget when nil)
    verb,         \* which of list / describe / invoke is set
    symbol,       \* main's symbol
    reflVal,      \* reflection.val, as main rewrites it
    tr,           \* usetls and forcePlaintext
    addlHeaders,  \* the entries main itself appends to addlHeaders
    fileSource,   \* whether fileSource is non-nil
    descSource,   \* which descriptor source main selected
    cc,           \* main's cc: "nil" or "open"
    refClient,    \* main's refClient: "nil" or "live"
    released,     \* how often refClient.Reset, cc.Close and reset were called
    exitFn,       \* the function the package variable exit holds
    dials,        \* the calls of grpcurl.BlockingDial made so far
    inv,          \* what InvokeRPC returned and what the handler recorded
    out,          \* the outcome of the run: exit code, fail site, warnings
    cs,           \* the composite source under test and the last call on it
    pt            \* the target under test and what parseTarget returned for it

mainVars == <<args, fl, pc, target, parsedAddr, verb, symbol, reflVal, tr,
              addlHeaders, fileSource, descSource, cc, refClient, released,
              exitFn, dials, inv, out>>

vars == <<args, fl, pc, target, parsedAddr, verb, symbol, reflVal, tr,
          addlHeaders, fileSource, descSource, cc, refClient, released,
          exitFn, dials, inv, out, cs, pt>>

----------------------------------------------------------------------------
(* Bounds of the model *)

\* the longest positional argument list
MaxArgs == 3
\* the largest number of flags given a non-default value on one command line
MaxFlags == 2
\* the longest extension list one descriptor source returns
MaxExts == 2
\* the largest gRPC status code an exchange ends with
MaxCode == 5
\* the largest number of path segments of a target under test
MaxSegs == 1
\* the largest number of invocations of reset
MaxResets == 3

----------------------------------------------------------------------------
(* Strings as token sequences *)

\* F applied to the value of v: v is evaluated once
Let(v, F(_)) == CHOOSE r \in {F(x) : x \in {v}} : TRUE

HasPrefix(s, p) == Len(s) >= Len(p) /\ SubSeq(s, 1, Len(p)) = p

HasSuffix(s, p) == Len(s) >= Len(p) /\ SubSeq(s, Len(s) - Len(p) + 1, Len(s)) = p

\* strings.Index for a one-token needle: 0 when absent (Go's -1)
Index(s, t) ==
    IF \E i \in 1..Len(s) : s[i] = t
    THEN CHOOSE i \in 1..Len(s) : s[i] = t /\ \A j \in 1..(i - 1) : s[j] # t
    ELSE 0

LastIndex(s, t) ==
    IF \E i \in 1..Len(s) : s[i] = t
    THEN CHOOSE i \in 1..Len(s) : s[i] = t /\ \A j \in (i + 1)..Len(s) : s[j] # t
    ELSE 0

From(s, i) == SubSeq(s, i, Len(s))

Upto(s, i) == SubSeq(s, 1, i)

LetterTokens == {"http", "https", "HTTPS", "unix", "xds", "ftp", "h", "p",
                 "list", "describe", "S"}

DigitTokens == {"1", "80", "443"}

\* a byte below 0x20 or 0x7f
CtlTokens == {"^"}

ToLower(s) == [i \in 1..Len(s) |-> IF s[i] = "HTTPS" THEN "https" ELSE s[i]]

----------------------------------------------------------------------------
(* net/url, as far as parseTarget depends on it *)

\* the first token of raw that no scheme can hold (0: there is none)
schemeEnd(raw) ==
    IF \E i \in 1..Len(raw) : raw[i] \notin LetterTokens \cup DigitTokens
    THEN CHOOSE i \in 1..Len(raw) :
            /\ raw[i] \notin LetterTokens \cup DigitTokens
            /\ \A j \in 1..(i - 1) : raw[j] \in LetterTokens \cup DigitTokens
    ELSE 0

\* url.getScheme: [err, scheme, rest]
getScheme(raw) ==
    Let(schemeEnd(raw), LAMBDA stop :
        IF stop = 0 THEN [err |-> FALSE, scheme |-> <<>>, rest |-> raw]
        ELSE IF raw[1] \in DigitTokens
        THEN [err |-> FALSE, scheme |-> <<>>, rest |-> raw]
        ELSE IF raw[stop] # ":"
        THEN [err |-> FALSE, scheme |-> <<>>, rest |-> raw]
        ELSE IF stop = 1 THEN [err |-> TRUE, scheme |-> <<>>, rest |-> raw]
        ELSE [err |-> FALSE, scheme |-> Upto(raw, stop - 1),
              rest |-> From(raw, stop + 1)])

\* url.validOptionalPort
validOptionalPort(p) ==
    \/ Len(p) = 0
    \/ /\ p[1] = ":"
       /\ \A i \in 2..Len(p) : p[i] \in DigitTokens

\* url.parseHost, reduced to whether it reports an error
parseHostErr(host) ==
    IF HasPrefix(host, <<"[">>)
    THEN Let(LastIndex(host, "]"), LAMBDA i :
             i = 0 \/ ~validOptionalPort(From(host, i + 1)))
    ELSE Let(LastIndex(host, ":"), LAMBDA i :
             i # 0 /\ ~validOptionalPort(From(host, i)))

NoURL == [err |-> TRUE, Scheme |-> <<>>, Opaque |-> <<>>, Host |-> <<>>,
          Path |-> <<>>, RawQuery |-> <<>>, Fragment |-> <<>>]

\* s cut at its first token t: <<before, after>>, after empty when t is absent
Cut(s, t) ==
    Let(Index(s, t), LAMBDA i :
        IF i = 0 THEN <<s, <<>>>> ELSE <<Upto(s, i - 1), From(s, i + 1)>>)

\* url.parse after the scheme and the query are cut off: rest is what is left
urlParseRest(scheme, rest, qry, frag) ==
    Let([err |-> FALSE, Scheme |-> ToLower(scheme), Opaque |-> <<>>,
         Host |-> <<>>, Path |-> <<>>, RawQuery |-> qry, Fragment |-> frag],
        LAMBDA base :
        IF ~HasPrefix(rest, <<"/">>) /\ scheme # <<>>
        THEN [base EXCEPT !.Opaque = rest]
        ELSE IF ~HasPrefix(rest, <<"/">>) /\ Index(Cut(rest, "/")[1], ":") # 0
        THEN NoURL
        ELSE IF (scheme # <<>> \/ ~HasPrefix(rest, <<"/", "/", "/">>))
                /\ HasPrefix(rest, <<"/", "/">>)
        THEN Let(From(rest, 3), LAMBDA a :
             Let(Index(a, "/"), LAMBDA i :
             Let(IF i = 0 THEN a ELSE Upto(a, i - 1), LAMBDA authority :
                 IF parseHostErr(authority) THEN NoURL
                 ELSE [base EXCEPT !.Host = authority,
                                   !.Path = IF i = 0 THEN <<>> ELSE From(a, i)])))
        ELSE [base EXCEPT !.Path = rest])

\* url.Parse
urlParse(rawURL) ==
    Let(Cut(rawURL, "#"), LAMBDA uf :
        IF \E i \in 1..Len(uf[1]) : uf[1][i] \in CtlTokens THEN NoURL
        ELSE Let(getScheme(uf[1]), LAMBDA gs :
             IF gs.err THEN NoURL
             ELSE Let(Cut(gs.rest, "?"), LAMBDA rq :
                      urlParseRest(gs.scheme, rq[1], rq[2], uf[2]))))

\* (*URL).Hostname and (*URL).Port, through url.splitHostPort
splitHostPort(hostPort) ==
    Let(LastIndex(hostPort, ":"), LAMBDA colon :
    Let(colon # 0 /\ validOptionalPort(From(hostPort, colon)), LAMBDA cut :
    Let(IF cut THEN Upto(hostPort, colon - 1) ELSE hostPort, LAMBDA h0 :
        [host |-> IF HasPrefix(h0, <<"[">>) /\ HasSuffix(h0, <<"]">>)
                  THEN SubSeq(h0, 2, Len(h0) - 1) ELSE h0,
         port |-> IF cut THEN From(hostPort, colon + 1) ELSE <<>>])))

----------------------------------------------------------------------------
(* parseTarget *)

NilTarget == [nil |-> TRUE]

IsNil(p) == "nil" \in DOMAIN p

passthrough(tgt, scheme) ==
    [address |-> tgt, scheme |-> scheme, host |-> tgt, port |-> <<>>,
     path |-> <<>>, useTLS |-> FALSE, wasURL |-> FALSE]

\* the http and https schemes, had the default port been 443 for both
httpTargetPort443(parsed) ==
    Let(splitHostPort(parsed.Host), LAMBDA hp :
    Let(IF hp.port = <<>> THEN <<"443">> ELSE hp.port, LAMBDA port :
        [address |-> hp.host \o <<":">> \o port,
         scheme  |-> parsed.Scheme,
         host    |-> hp.host,
         port    |-> port,
         path    |-> parsed.Path,
         useTLS  |-> parsed.Scheme = <<"https">>,
         wasURL  |-> TRUE]))

\* lines 398-424: the http and https schemes
httpTarget(parsed) ==
    Let(splitHostPort(parsed.Host), LAMBDA hp :
    Let(IF hp.port = <<>>
        THEN IF parsed.Scheme = <<"https">> THEN <<"443">> ELSE <<"80">>
        ELSE hp.port, LAMBDA port :
        [address |-> hp.host \o <<":">> \o port,
         scheme  |-> parsed.Scheme,
         host    |-> hp.host,
         port    |-> port,
         path    |-> parsed.Path,
         useTLS  |-> parsed.Scheme = <<"https">>,
         wasURL  |-> TRUE]))

\* parseTarget, had it reported a target that url.Parse rejects
parseTargetErrStrict(tgt) ==
    IF HasPrefix(tgt, <<"unix", ":", "/", "/">>)
       \/ HasPrefix(tgt, <<"xds", ":", "/", "/", "/">>)
    THEN "nil"
    ELSE IF urlParse(tgt).err THEN "url.Parse" ELSE "nil"

\* the error parseTarget returns: nil at each of its seven returns
parseTargetErr(tgt) == "nil"

parseTarget(tgt) ==
    IF HasPrefix(tgt, <<"unix", ":", "/", "/">>)
       \/ HasPrefix(tgt, <<"xds", ":", "/", "/", "/">>)
    THEN passthrough(tgt, <<>>)
    ELSE Let(urlParse(tgt), LAMBDA parsed :
         IF parsed.err THEN passthrough(tgt, <<>>)
         ELSE IF parsed.Scheme # <<>> /\ parsed.Scheme # <<"http">>
                 /\ parsed.Scheme # <<"https">>
         THEN IF parsed.Host = <<>> /\ parsed.Path = <<>>
                 /\ parsed.RawQuery = <<>> /\ parsed.Fragment = <<>>
              THEN passthrough(tgt, <<>>)
              ELSE passthrough(tgt, parsed.Scheme)
         ELSE IF parsed.Scheme = <<>> THEN passthrough(tgt, <<>>)
         ELSE IF parsed.Scheme = <<"http">> \/ parsed.Scheme = <<"https">>
         THEN httpTarget(parsed)
         ELSE passthrough(tgt, <<>>))

----------------------------------------------------------------------------
(* The command line *)

List == <<"list">>
Describe == <<"describe">>

\* the target addresses given on the command line:
\* h:1, http://h, http://h:1/p, https://h/, https://h/p
Targets == { <<"h", ":", "1">>,
             <<"http", ":", "/", "/", "h">>,
             <<"http", ":", "/", "/", "h", ":", "1", "/", "p">>,
             <<"https", ":", "/", "/", "h", "/">>,
             <<"https", ":", "/", "/", "h", "/", "p">> }

PlainWords == {List, Describe, <<"S">>}

\* flags.Args(): any first word, then verbs and symbols
ArgLists ==
    UNION { { a \in [1..n -> Targets \cup PlainWords] :
                \A i \in 2..n : a[i] \in PlainWords } : n \in 0..MaxArgs }

\* reflection is the optionalBoolFlag: val defaults to true
Flags ==
    [plaintext : BOOLEAN, usealts : BOOLEAN, insecure : BOOLEAN,
     cert : {"", "c"}, key : {"", "k"},
     serverName : {"", "a", "b"}, authority : {"", "a"},
     formatError : BOOLEAN, protoset : BOOLEAN, protoFiles : BOOLEAN,
     reflection : {[set |-> FALSE, val |-> TRUE], [set |-> TRUE, val |-> TRUE],
                   [set |-> TRUE, val |-> FALSE]}]

B(b) == IF b THEN 1 ELSE 0

FlagsGiven(f) ==
    B(f.plaintext) + B(f.usealts) + B(f.insecure) + B(f.cert # "")
    + B(f.key # "") + B(f.serverName # "") + B(f.authority # "")
    + B(f.formatError) + B(f.protoset) + B(f.protoFiles) + B(f.reflection.set)

\* the flags that are only validated: a negative number, an ALTS option, a
\* format other than json and text
Checked ==
    [connectTimeoutNeg : BOOLEAN, keepaliveTimeNeg : BOOLEAN,
     maxTimeNeg : BOOLEAN, maxMsgSzNeg : BOOLEAN,
     altsHandshaker : BOOLEAN, altsAccounts : BOOLEAN, formatOther : BOOLEAN]

ChecksGiven(c) ==
    B(c.connectTimeoutNeg) + B(c.keepaliveTimeNeg) + B(c.maxTimeNeg)
    + B(c.maxMsgSzNeg) + B(c.altsHandshaker) + B(c.altsAccounts)
    + B(c.formatOther)

----------------------------------------------------------------------------
(* exit, fail and reset *)

statusCodeOffset == 64

Running == [code |-> -1, site |-> "", hasErr |-> FALSE, help |-> FALSE,
            warned |-> FALSE]

\* reset, had it released what is held without forgetting it
resetKeepsHandles(h) ==
    [refClient |-> h.refClient,
     cc        |-> h.cc,
     released  |-> [Reset |-> h.released.Reset + B(h.refClient # "nil"),
                    Close |-> h.released.Close + B(h.cc # "nil"),
                    calls |-> h.released.calls + 1]]

\* main.reset: release what is held, and forget it
reset(h) ==
    [refClient |-> "nil",
     cc        |-> "nil",
     released  |-> [Reset |-> h.released.Reset + B(h.refClient # "nil"),
                    Close |-> h.released.Close + B(h.cc # "nil"),
                    calls |-> h.released.calls + 1]]

Held == [refClient |-> refClient, cc |-> cc, released |-> released]

\* exit(code), had main left os.Exit in it
ExitOsOnly(h, fn) == h

\* exit(code): os.Exit until main replaces it by reset-then-os.Exit
Exit(h, fn) == IF fn = "reset;os.Exit" THEN reset(h) ELSE h

\* fail, had it exited with 1 on every path
failCodeAlwaysOne(hasErr) == 1

\* fail: exit code 1 with an underlying error, else 2 and the help pointer
failCode(hasErr) == IF hasErr THEN 1 ELSE 2

failHelp(hasErr) == ~hasErr

Failed(site, hasErr, w) ==
    [code |-> failCode(hasErr), site |-> site, hasErr |-> hasErr,
     help |-> failHelp(hasErr), warned |-> w]

\* fail(err, msg) called with h held and fn in exit, after a warning if w
Fail(site, hasErr, w, h, fn) ==
    \E e \in {Exit(h, fn)} :
    /\ out' = Failed(site, hasErr, out.warned \/ w)
    /\ pc' = "exited"
    /\ refClient' = e.refClient
    /\ cc' = e.cc
    /\ released' = e.released

----------------------------------------------------------------------------
(* main, from flags.Args() to the reflection.val rewrite *)

\* the message of the first check of a list of <<failed, message>> that failed
FirstFailure(checks) ==
    Let(checks, LAMBDA c :
        IF \E i \in 1..Len(c) : c[i][1]
        THEN c[CHOOSE i \in 1..Len(c) : c[i][1] /\ \A j \in 1..(i - 1) : ~c[j][1]][2]
        ELSE "")

\* lines 455-470: [target, parsedAddr, args]
takeTarget(a0) ==
    IF Len(a0) > 0 /\ a0[1] # List /\ a0[1] # Describe
    THEN Let(parseTarget(a0[1]), LAMBDA pa :
             [target |-> pa.address, parsedAddr |-> pa, args |-> Tail(a0),
              err |-> parseTargetErr(a0[1])])
    ELSE [target |-> <<>>, parsedAddr |-> NilTarget, args |-> a0,
          err |-> "nil"]

\* lines 475-484: [verb, args]
takeVerb(a1) ==
    IF Len(a1) = 0 THEN [verb |-> "", args |-> a1]
    ELSE IF a1[1] = List THEN [verb |-> "list", args |-> Tail(a1)]
    ELSE IF a1[1] = Describe THEN [verb |-> "describe", args |-> Tail(a1)]
    ELSE [verb |-> "invoke", args |-> a1]

\* lines 502-520: [symbol, args]
takeSymbol(a2) ==
    IF Len(a2) > 0 THEN [symbol |-> a2[1], args |-> Tail(a2)]
    ELSE [symbol |-> <<>>, args |-> a2]

\* lines 450-547
parseArgs(a0, f) ==
    Let(takeTarget(a0), LAMBDA t :
    Let(takeVerb(t.args), LAMBDA v :
    Let(takeSymbol(v.args), LAMBDA sy :
    Let(~f.protoset /\ ~f.protoFiles, LAMBDA noSrc :
        [site |-> FirstFailure(<<
            <<Len(a0) = 0, "Too few arguments.">>,
            <<t.err # "nil", "Failed to parse target address">>,
            <<Len(t.args) = 0, "Too few arguments.">>,
            <<v.verb = "invoke" /\ Len(v.args) = 0, "Too few arguments.">>,
            <<Len(sy.args) > 0, "Too many arguments.">>,
            <<v.verb = "invoke" /\ t.target = <<>>, "No host:port specified.">>,
            <<noSrc /\ t.target = <<>>,
              "No host:port specified, no protoset specified, and no proto sources specified.">>,
            <<f.protoset /\ f.protoFiles,
              "Use either -protoset files or -proto files, but not both.">>,
            <<~f.reflection.val /\ noSrc,
              "No protoset files or proto files specified and -use-reflection set to false.">> >>),
         target |-> t.target, parsedAddr |-> t.parsedAddr, verb |-> v.verb,
         symbol |-> sy.symbol, rest |-> sy.args,
         reflVal |-> IF ~f.reflection.set /\ ~noSrc THEN FALSE
                     ELSE f.reflection.val]))))

ParseArgs ==
    /\ pc = "args"
    /\ \E r \in {parseArgs(args, fl)} :
       /\ IF r.site # ""
          THEN /\ Fail(r.site, r.site = "Failed to parse target address",
                       FALSE, Held, exitFn)
               /\ UNCHANGED reflVal
          ELSE /\ pc' = "flags"
               /\ reflVal' = r.reflVal
               /\ UNCHANGED <<cc, refClient, released, out>>
       /\ args' = r.rest
       /\ target' = r.target
       /\ parsedAddr' = r.parsedAddr
       /\ verb' = r.verb
       /\ symbol' = r.symbol
    /\ UNCHANGED <<fl, tr, addlHeaders, fileSource, descSource, exitFn, dials,
                   inv, cs, pt>>

----------------------------------------------------------------------------
(* main: the transport mode and the validation of the flags *)

IsURL(pa) == ~IsNil(pa) /\ pa.wasURL

\* the transport mode, had the URL scheme been left out of it
negotiateFlagsOnly(f, pa) ==
    [usetls |-> ~f.plaintext /\ ~f.usealts, forcePlaintext |-> f.plaintext]

\* the transport mode, had an http URL cleared usetls without forcing plaintext
negotiateHTTPUnforced(f, pa) ==
    IF IsURL(pa) /\ ~pa.useTLS /\ ~f.plaintext /\ ~f.usealts
    THEN [usetls |-> FALSE, forcePlaintext |-> FALSE]
    ELSE [usetls |-> ~f.plaintext /\ ~f.usealts, forcePlaintext |-> f.plaintext]

\* usetls and forcePlaintext
negotiate(f, pa) ==
    IF IsURL(pa) /\ ~pa.useTLS /\ ~f.plaintext /\ ~f.usealts
    THEN [usetls |-> FALSE, forcePlaintext |-> TRUE]
    ELSE IF IsURL(pa) /\ pa.useTLS /\ ~f.plaintext /\ ~f.usealts
    THEN [usetls |-> TRUE, forcePlaintext |-> f.plaintext]
    ELSE [usetls |-> ~f.plaintext /\ ~f.usealts, forcePlaintext |-> f.plaintext]

\* the https check, had it tested -plaintext alone
httpsContradictionPlaintextOnly(f, pa) ==
    IsURL(pa) /\ pa.useTLS /\ f.plaintext

\* lines 563-565: an https URL with -plaintext or -alts
httpsContradiction(f, pa) ==
    IsURL(pa) /\ pa.useTLS /\ (f.plaintext \/ f.usealts)

\* the mutual exclusion check, had it been left out
exclusiveModesUnchecked(f) == FALSE

\* lines 589-591
exclusiveModes(f) == f.plaintext /\ f.usealts

\* the -insecure check, had it tested the -plaintext flag instead of usetls
insecureWithPlaintextFlag(f, t) == f.insecure /\ f.plaintext

\* lines 592-594
insecureMisuse(f, t) == f.insecure /\ ~t.usetls

validate(f, pa, chk) ==
    Let(negotiate(f, pa), LAMBDA t :
    FirstFailure(<<
        <<httpsContradiction(f, pa),
          "Target URL scheme 'https' requires TLS but -plaintext or -alts flag is set.">>,
        <<chk.connectTimeoutNeg, "The -connect-timeout argument must not be negative.">>,
        <<chk.keepaliveTimeNeg, "The -keepalive-time argument must not be negative.">>,
        <<chk.maxTimeNeg, "The -max-time argument must not be negative.">>,
        <<chk.maxMsgSzNeg, "The -max-msg-sz argument must not be negative.">>,
        <<exclusiveModes(f),
          "The -plaintext and -alts arguments are mutually exclusive.">>,
        <<insecureMisuse(f, t), "The -insecure argument can only be used with TLS.">>,
        <<f.cert # "" /\ ~t.usetls, "The -cert argument can only be used with TLS.">>,
        <<f.key # "" /\ ~t.usetls, "The -key argument can only be used with TLS.">>,
        <<(f.key = "") # (f.cert = ""),
          "The -cert and -key arguments must be used together and both be present.">>,
        <<chk.altsHandshaker /\ ~f.usealts,
          "The -alts-handshaker-service argument must be used with the -alts argument.">>,
        <<chk.altsAccounts /\ ~f.usealts,
          "The -alts-target-service-account argument must be used with the -alts argument.">>,
        <<chk.formatOther, "The -format option must be 'json' or 'text'.">> >>))

ValidateFlags ==
    /\ pc = "flags"
    /\ \E chk \in {c \in Checked : FlagsGiven(fl) + ChecksGiven(c) <= MaxFlags} :
         \E site \in {validate(fl, parsedAddr, chk)} :
         IF site # ""
         THEN Fail(site, FALSE, FALSE, Held, exitFn)
         ELSE /\ pc' = "sources"
              /\ UNCHANGED <<cc, refClient, released, out>>
    /\ tr' = negotiate(fl, parsedAddr)
    /\ UNCHANGED <<args, fl, target, parsedAddr, verb, symbol, reflVal,
                   addlHeaders, fileSource, descSource, exitFn, dials, inv, cs, pt>>

----------------------------------------------------------------------------
(* main.dial *)

\* what the run cannot control: -unix given (isUnixSocket), and which of the
\* calls dial makes fail
DialEnv == [unix : BOOLEAN, tlsConfig : BOOLEAN, keyLog : BOOLEAN,
            connect : BOOLEAN]

HasPath(pa) == IsURL(pa) /\ pa.path # <<>> /\ pa.path # <<"/">>

\* the mode the credentials are built for
dialMode(f, t) ==
    IF t.forcePlaintext THEN "plaintext"
    ELSE IF f.usealts THEN "alts"
    ELSE IF t.usetls THEN "tls"
    ELSE "panic"

\* the value given to grpc.WithAuthority ("" when the option is not added)
dialAuthority(f, mode) ==
    IF mode = "plaintext" THEN f.authority
    ELSE IF mode = "tls"
    THEN IF f.serverName # "" THEN f.serverName ELSE f.authority
    ELSE ""

\* the -servername / -authority check, had its comparison been inverted
nameConflictInverted(f) ==
    f.serverName # "" /\ f.authority # "" /\ f.serverName = f.authority

\* lines 685-691: -servername and -authority name different servers
nameConflict(f) ==
    f.serverName # "" /\ f.authority # "" /\ f.serverName # f.authority

\* the first fatal error of dial before the connection is attempted
dialSetupFailure(f, mode, env) ==
    FirstFailure(<<
        <<mode = "tls" /\ ~env.tlsConfig, "Failed to create TLS config">>,
        <<mode = "tls" /\ ~env.keyLog, "Could not open SSLKEYLOGFILE">>,
        <<mode = "tls" /\ nameConflict(f),
          "Cannot specify different values for -servername and -authority.">>,
        <<mode = "panic", "panic: Should have defaulted to use TLS.">> >>)

dialWarns(f, mode) ==
    mode = "tls" /\ f.serverName # "" /\ f.serverName = f.authority

\* dial(): [site, hasErr, warned, calls]: the failure ("" when the connection
\* is returned) and the BlockingDial calls made
dial(f, t, pa, tgt, env) ==
    Let(dialMode(f, t), LAMBDA mode :
    Let(dialSetupFailure(f, mode, env), LAMBDA setup :
        IF setup # ""
        THEN [site |-> setup,
              hasErr |-> setup \in {"Failed to create TLS config",
                                    "Could not open SSLKEYLOGFILE"},
              warned |-> FALSE, calls |-> <<>>]
        ELSE [site |-> IF env.connect THEN "" ELSE "Failed to dial target host",
              hasErr |-> ~env.connect,
              warned |-> dialWarns(f, mode),
              calls |-> << [target     |-> IF env.unix /\ ~HasPrefix(tgt, <<"unix", ":", "/", "/">>)
                                           THEN <<"unix", ":", "/", "/">> \o tgt
                                           ELSE tgt,
                            mode       |-> mode,
                            creds      |-> IF mode = "plaintext" THEN "nil" ELSE mode,
                            authority  |-> dialAuthority(f, mode),
                            serverName |-> IF mode = "tls" /\ HasPath(pa)
                                           THEN pa.host ELSE <<>>,
                            ok         |-> env.connect] >>]))

\* the end of a call of dial that did not return a connection: fail, or the
\* panic, which runs the deferred reset once main has registered it
DialFailed(d, fn) ==
    IF d.site = "panic: Should have defaulted to use TLS."
    THEN \E e \in {Exit(Held, fn)} :
         /\ out' = [code |-> 2, site |-> d.site, hasErr |-> FALSE,
                    help |-> FALSE, warned |-> out.warned]
         /\ pc' = "exited"
         /\ refClient' = e.refClient
         /\ cc' = e.cc
         /\ released' = e.released
    ELSE Fail(d.site, d.hasErr, d.warned, Held, fn)

----------------------------------------------------------------------------
(* main: headers and descriptor sources *)

SourceEnv ==
    [expand : {"", "Failed to expand additional headers",
               "Failed to expand rpc headers",
               "Failed to expand reflection headers"},
     load : BOOLEAN]

\* what main appends, had it taken the path / for a path as well
pathHeaderAnyPath(pa) ==
    IF IsURL(pa) /\ pa.path # <<>>
    THEN <<[name |-> "x-grpc-path", value |-> pa.path]>>
    ELSE <<>>

\* what main appends to addlHeaders
pathHeader(pa) ==
    IF HasPath(pa) THEN <<[name |-> "x-grpc-path", value |-> pa.path]>>
    ELSE <<>>

loadFailure(f, env) ==
    FirstFailure(<<
        <<env.expand # "", env.expand>>,
        <<f.protoset /\ ~env.load, "Failed to process proto descriptor sets.">>,
        <<~f.protoset /\ f.protoFiles /\ ~env.load,
          "Failed to process proto source files.">> >>)

BuildSources ==
    /\ pc = "sources"
    /\ \E env \in SourceEnv :
         \E site \in {loadFailure(fl, env)} :
         /\ addlHeaders' = IF env.expand # "" THEN addlHeaders
                           ELSE addlHeaders \o pathHeader(parsedAddr)
         /\ IF site # ""
            THEN /\ Fail(site, TRUE, FALSE, Held, exitFn)
                 /\ UNCHANGED fileSource
            ELSE /\ pc' = "reflection"
                 /\ fileSource' = (fl.protoset \/ fl.protoFiles)
                 /\ UNCHANGED <<cc, refClient, released, out>>
    /\ UNCHANGED <<args, fl, target, parsedAddr, verb, symbol, reflVal, tr,
                   descSource, exitFn, dials, inv, cs, pt>>

\* lines 768-800: the reflection client, the descriptor source, and exit
SetupReflection ==
    /\ pc = "reflection"
    /\ IF reflVal
       THEN \E env \in DialEnv :
              \E d \in {dial(fl, tr, parsedAddr, target, env)} :
              /\ dials' = dials \o d.calls
              /\ IF d.site # ""
                 THEN /\ DialFailed(d, exitFn)
                      /\ UNCHANGED <<descSource, exitFn>>
                 ELSE /\ cc' = "open"
                      /\ refClient' = "live"
                      /\ descSource' = IF fileSource THEN "composite"
                                       ELSE "reflection"
                      /\ exitFn' = "reset;os.Exit"
                      /\ pc' = "verb"
                      /\ out' = [out EXCEPT !.warned = @ \/ d.warned]
                      /\ UNCHANGED released
       ELSE /\ descSource' = "file"
            /\ exitFn' = "reset;os.Exit"
            /\ pc' = "verb"
            /\ UNCHANGED <<cc, refClient, released, out, dials>>
    /\ UNCHANGED <<args, fl, target, parsedAddr, verb, symbol, reflVal, tr,
                   addlHeaders, fileSource, inv, cs, pt>>

----------------------------------------------------------------------------
(* main: list, describe and invoke *)

ListFailures(sym) ==
    (IF sym = <<>> THEN {"Failed to list services"}
     ELSE {"Failed to list methods for service"})
    \cup {"Failed to write protoset", "Failed to write protos"}

DescribeFailures(sym) ==
    (IF sym = <<>> THEN {"Failed to list services"} ELSE {})
    \cup {"Failed to resolve symbol", "Failed to describe symbol",
          "Failed to construct formatter", "Failed to print template for message",
          "Failed to write protoset", "Failed to write protos"}

RunList ==
    /\ pc = "verb"
    /\ verb = "list"
    /\ \E site \in ListFailures(symbol) \cup {""} :
         IF site # "" THEN Fail(site, TRUE, FALSE, Held, exitFn)
         ELSE /\ pc' = "return"
              /\ UNCHANGED <<cc, refClient, released, out>>
    /\ UNCHANGED <<args, fl, target, parsedAddr, verb, symbol, reflVal, tr,
                   addlHeaders, fileSource, descSource, exitFn, dials, inv, cs, pt>>

RunDescribe ==
    /\ pc = "verb"
    /\ verb = "describe"
    /\ \E site \in DescribeFailures(symbol) \cup {""} :
         IF site # "" THEN Fail(site, TRUE, FALSE, Held, exitFn)
         ELSE /\ pc' = "return"
              /\ UNCHANGED <<cc, refClient, released, out>>
    /\ UNCHANGED <<args, fl, target, parsedAddr, verb, symbol, reflVal, tr,
                   addlHeaders, fileSource, descSource, exitFn, dials, inv, cs, pt>>

\* the test of line 949, had invoke dialed whatever cc holds
needsDialAlways(c) == TRUE

\* line 949: cc == nil
needsDial(c) == c = "nil"

\* lines 949-951: invoke dials unless reflection already did
InvokeDial ==
    /\ pc = "verb"
    /\ verb = "invoke"
    /\ IF needsDial(cc)
       THEN \E env \in DialEnv :
              \E d \in {dial(fl, tr, parsedAddr, target, env)} :
              /\ dials' = dials \o d.calls
              /\ IF d.site # ""
                 THEN DialFailed(d, exitFn)
                 ELSE /\ cc' = "open"
                      /\ pc' = "rpc"
                      /\ out' = [out EXCEPT !.warned = @ \/ d.warned]
                      /\ UNCHANGED <<refClient, released>>
       ELSE /\ pc' = "rpc"
            /\ UNCHANGED <<cc, refClient, released, out, dials>>
    /\ UNCHANGED <<args, fl, target, parsedAddr, verb, symbol, reflVal, tr,
                   addlHeaders, fileSource, descSource, exitFn, inv, cs, pt>>

\* the gRPC status codes, OK = 0
Codes == 0..MaxCode

OK == 0

\* what grpcurl.InvokeRPC returns (nil, an error that carries no status, an
\* error that carries a status) and the status its handler was given
InvokeResults ==
    [err : {"nil"}, errCode : {OK}, hCode : Codes]
    \cup [err : {"plain"}, errCode : {OK}, hCode : {OK}]
    \cup [err : {"status"}, errCode : Codes \ {OK}, hCode : {OK}]

\* lines 981-987: h.Status after the error check ("fail" when main fails)
statusAfter(r, formatError) ==
    IF r.err = "nil" THEN r.hCode
    ELSE IF r.err = "status" /\ formatError THEN r.errCode
    ELSE -1

\* line 1006
statusExit(code) == statusCodeOffset + code

RunInvoke ==
    /\ pc = "rpc"
    /\ \E fmt \in BOOLEAN, r \in InvokeResults :
         IF ~fmt
         THEN /\ Fail("Failed to construct request parser and formatter", TRUE,
                      FALSE, Held, exitFn)
              /\ UNCHANGED inv
         ELSE \E st \in {statusAfter(r, fl.formatError)} :
              /\ inv' = [r EXCEPT !.hCode = IF st = -1 THEN r.hCode ELSE st]
              /\ IF st = -1
                 THEN Fail("Error invoking method", TRUE, FALSE, Held, exitFn)
                 ELSE IF st # OK
                 THEN \E e \in {Exit(Held, exitFn)} :
                      /\ out' = [code |-> statusExit(st), site |-> "status",
                                 hasErr |-> FALSE, help |-> FALSE,
                                 warned |-> out.warned]
                      /\ pc' = "exited"
                      /\ refClient' = e.refClient
                      /\ cc' = e.cc
                      /\ released' = e.released
                 ELSE /\ pc' = "return"
                      /\ UNCHANGED <<cc, refClient, released, out>>
    /\ UNCHANGED <<args, fl, target, parsedAddr, verb, symbol, reflVal, tr,
                   addlHeaders, fileSource, descSource, exitFn, dials, cs, pt>>

\* main returns: the deferred reset runs and the process exits with 0
Return ==
    /\ pc = "return"
    /\ \E e \in {reset(Held)} :
       /\ refClient' = e.refClient
       /\ cc' = e.cc
       /\ released' = e.released
    /\ out' = [out EXCEPT !.code = 0]
    /\ pc' = "exited"
    /\ UNCHANGED <<args, fl, target, parsedAddr, verb, symbol, reflVal, tr,
                   addlHeaders, fileSource, descSource, exitFn, dials, inv, cs, pt>>

----------------------------------------------------------------------------
(* compositeSource *)

Ok(v) == [err |-> "", val |-> v]

Err(e) == [err |-> e, val |-> <<>>]

\* the field numbers of the extensions of the type asked for
Tags == {5, 7, 9}

\* the sequences over S without repetition, up to length n
Distinct(S, n) ==
    UNION { { q \in [1..k -> S] : \A i, j \in 1..k : i # j => q[i] # q[j] } :
            k \in 0..n }

\* the extension descriptors a source holds: one per tag at most
ExtLists(from) ==
    { [i \in 1..Len(q) |-> [number |-> q[i], from |-> from]] :
        q \in Distinct(Tags, MaxExts) }

\* what the reflection source answers: any answer, or one of its failures
ReflectionSources ==
    [find : {Ok([name |-> "sym", from |-> "reflection"])}
            \cup {Err(e) : e \in {"reflection: not found", "reflection: rpc error",
                                  "reflection: missing file descriptor"}},
     exts : {Ok(q) : q \in ExtLists("reflection")} \cup {Err("reflection: rpc error")},
     svcs : {Ok(<<>>), Ok(<<"live.Service">>), Err("reflection: rpc error")}]

FileSources ==
    [find : {Ok([name |-> "sym", from |-> "file"]), Err("file: not found")},
     exts : {Ok(q) : q \in ExtLists("file")} \cup {Err("file: not found")},
     svcs : {Ok(<<>>), Ok(<<"file.Service">>)}]

\* each method: [ret, calls], calls naming the sources it queried, in order

\* ListServices, had it fallen back on the file source as FindSymbol does
csListServicesFallback(src) ==
    IF src.reflection.svcs.err = ""
    THEN [ret |-> src.reflection.svcs, calls |-> <<"reflection">>]
    ELSE [ret |-> src.file.svcs, calls |-> <<"reflection", "file">>]

\* compositeSource.ListServices
csListServices(src) ==
    [ret |-> src.reflection.svcs, calls |-> <<"reflection">>]

\* FindSymbol, had it fallen back on "not found" alone
csFindSymbolOnNotFound(src) ==
    IF src.reflection.find.err = ""
    THEN [ret |-> Ok(src.reflection.find.val), calls |-> <<"reflection">>]
    ELSE IF src.reflection.find.err = "reflection: not found"
    THEN [ret |-> src.file.find, calls |-> <<"reflection", "file">>]
    ELSE [ret |-> src.reflection.find, calls |-> <<"reflection">>]

\* compositeSource.FindSymbol
csFindSymbol(src) ==
    IF src.reflection.find.err = ""
    THEN [ret |-> Ok(src.reflection.find.val), calls |-> <<"reflection">>]
    ELSE [ret |-> src.file.find, calls |-> <<"reflection", "file">>]

\* lines 273-276: the tag numbers from the reflection source
tagsOf(exts) == {exts[i].number : i \in 1..Len(exts)}

\* the merge, had it appended every extension of the file source
appendAll(exts, fileExts) == exts \o fileExts

\* lines 281-286
appendNew(exts, fileExts) ==
    Let(tagsOf(exts), LAMBDA tags :
        exts \o SelectSeq(fileExts, LAMBDA ext : ext.number \notin tags))

\* AllExtensionsForType, had it returned the file source's error
csAllExtensionsForTypeStrict(src) ==
    IF src.reflection.exts.err # ""
    THEN [ret |-> src.file.exts, calls |-> <<"reflection", "file">>]
    ELSE IF src.file.exts.err # ""
    THEN [ret |-> src.file.exts, calls |-> <<"reflection", "file">>]
    ELSE [ret |-> Ok(appendNew(src.reflection.exts.val, src.file.exts.val)),
          calls |-> <<"reflection", "file">>]

\* compositeSource.AllExtensionsForType
csAllExtensionsForType(src) ==
    IF src.reflection.exts.err # ""
    THEN [ret |-> src.file.exts, calls |-> <<"reflection", "file">>]
    ELSE IF src.file.exts.err # ""
    THEN [ret |-> Ok(src.reflection.exts.val), calls |-> <<"reflection", "file">>]
    ELSE [ret |-> Ok(appendNew(src.reflection.exts.val, src.file.exts.val)),
          calls |-> <<"reflection", "file">>]

Called(op, r) ==
    /\ pc = "composite"
    /\ cs.op = "none"
    /\ cs' = [cs EXCEPT !.op = op, !.ret = r.ret, !.calls = r.calls]
    /\ UNCHANGED <<mainVars, pt>>

ListServices == \E r \in {csListServices(cs)} : Called("ListServices", r)

FindSymbol == \E r \in {csFindSymbol(cs)} : Called("FindSymbol", r)

AllExtensionsForType ==
    \E r \in {csAllExtensionsForType(cs)} : Called("AllExtensionsForType", r)

----------------------------------------------------------------------------
(* The run of main *)

NoCall == [op |-> "none"]

NoParse == [done |-> FALSE]

NoInvoke == [err |-> "none", errCode |-> OK, hCode |-> OK]

Init ==
    /\ args \in ArgLists
    /\ fl \in {f \in Flags : FlagsGiven(f) <= MaxFlags}
    /\ pc = "args"
    /\ target = <<>>
    /\ parsedAddr = NilTarget
    /\ verb = ""
    /\ symbol = <<>>
    /\ reflVal = fl.reflection.val
    /\ tr = [usetls |-> FALSE, forcePlaintext |-> FALSE]
    /\ addlHeaders = <<>>
    /\ fileSource = FALSE
    /\ descSource = "nil"
    /\ cc = "nil"
    /\ refClient = "nil"
    /\ released = [Reset |-> 0, Close |-> 0, calls |-> 0]
    /\ exitFn = "os.Exit"
    /\ dials = <<>>
    /\ inv = NoInvoke
    /\ out = Running
    /\ cs = NoCall
    /\ pt = NoParse

Next ==
    \/ ParseArgs
    \/ ValidateFlags
    \/ BuildSources
    \/ SetupReflection
    \/ RunList
    \/ RunDescribe
    \/ InvokeDial
    \/ RunInvoke
    \/ Return

Spec == Init /\ [][Next]_vars


\* a composite source over a reflection and a file source, and no call yet
InitCS ==
    /\ args = <<>>
    /\ fl = [plaintext |-> FALSE, usealts |-> FALSE, insecure |-> FALSE,
             cert |-> "", key |-> "", serverName |-> "", authority |-> "",
             formatError |-> FALSE, protoset |-> TRUE, protoFiles |-> FALSE,
             reflection |-> [set |-> TRUE, val |-> TRUE]]
    /\ pc = "composite"
    /\ target = <<>>
    /\ parsedAddr = NilTarget
    /\ verb = ""
    /\ symbol = <<>>
    /\ reflVal = TRUE
    /\ tr = [usetls |-> TRUE, forcePlaintext |-> FALSE]
    /\ addlHeaders = <<>>
    /\ fileSource = TRUE
    /\ descSource = "composite"
    /\ cc = "nil"
    /\ refClient = "nil"
    /\ released = [Reset |-> 0, Close |-> 0, calls |-> 0]
    /\ exitFn = "os.Exit"
    /\ dials = <<>>
    /\ inv = NoInvoke
    /\ out = Running
    /\ cs \in [op : {"none"}, reflection : ReflectionSources, file : FileSources,
               ret : {Ok(<<>>)}, calls : {<<>>}]
    /\ pt = NoParse

NextCS ==
    \/ ListServices
    \/ FindSymbol
    \/ AllExtensionsForType

SpecCS == InitCS /\ [][NextCS]_vars

----------------------------------------------------------------------------
(* The run of main, and reset invoked again after it *)

\* reset() once more, after the invocation that ended the run
ResetAgain ==
    /\ pc = "exited"
    /\ exitFn = "reset;os.Exit"
    /\ released.calls < MaxResets
    /\ \E e \in {reset(Held)} :
       /\ refClient' = e.refClient
       /\ cc' = e.cc
       /\ released' = e.released
    /\ UNCHANGED <<args, fl, pc, target, parsedAddr, verb, symbol, reflVal, tr,
                   addlHeaders, fileSource, descSource, exitFn, dials, inv, out,
                   cs, pt>>

NextRS ==
    \/ Next
    \/ ResetAgain

SpecRS == Init /\ [][NextRS]_vars

----------------------------------------------------------------------------
(* parseTarget on its own *)

\* what stands before the authority: nothing, or a scheme and its colon
SchemeParts ==
    { <<>>, <<"http", ":">>, <<"https", ":">>, <<"HTTPS", ":">>,
      <<"ftp", ":">>, <<"unix", ":">>, <<"xds", ":">>, <<"h", ":">>,
      <<"1", ":">>, <<":">> }

SlashParts == { <<>>, <<"/", "/">>, <<"/", "/", "/">> }

\* h, [::1], [::1 with the bracket left open, and h with a control byte
HostParts ==
    { <<>>, <<"h">>, <<"[", ":", ":", "1", "]">>, <<"[", ":", ":", "1">>,
      <<"h", "^">> }

PortParts == { <<>>, <<":", "1">>, <<":">>, <<":", "p">> }

\* the paths of n segments, each / or /p
Segs(n) ==
    { [i \in 1..Len(q) |-> IF q[i] = 0 THEN <<"/">> ELSE <<"/", "p">>] :
        q \in [1..n -> {0, 1}] }

RECURSIVE Flatten(_)
Flatten(q) == IF q = <<>> THEN <<>> ELSE Head(q) \o Flatten(Tail(q))

PathParts == UNION { {Flatten(q) : q \in Segs(n)} : n \in 0..MaxSegs }

TailParts == { <<>>, <<"?", "p">>, <<"#", "p">> }

RawTargets ==
    { sc \o sl \o h \o po \o pa \o tl :
        sc \in SchemeParts, sl \in SlashParts, h \in HostParts,
        po \in PortParts, pa \in PathParts, tl \in TailParts }

InitPT ==
    /\ args = <<>>
    /\ fl = [plaintext |-> FALSE, usealts |-> FALSE, insecure |-> FALSE,
             cert |-> "", key |-> "", serverName |-> "", authority |-> "",
             formatError |-> FALSE, protoset |-> FALSE, protoFiles |-> FALSE,
             reflection |-> [set |-> FALSE, val |-> TRUE]]
    /\ pc = "parseTarget"
    /\ target = <<>>
    /\ parsedAddr = NilTarget
    /\ verb = ""
    /\ symbol = <<>>
    /\ reflVal = TRUE
    /\ tr = [usetls |-> FALSE, forcePlaintext |-> FALSE]
    /\ addlHeaders = <<>>
    /\ fileSource = FALSE
    /\ descSource = "nil"
    /\ cc = "nil"
    /\ refClient = "nil"
    /\ released = [Reset |-> 0, Close |-> 0, calls |-> 0]
    /\ exitFn = "os.Exit"
    /\ dials = <<>>
    /\ inv = NoInvoke
    /\ out = Running
    /\ cs = NoCall
    /\ pt \in [done : {FALSE}, raw : RawTargets]

\* parsedAddr, err := parseTarget(raw)
ParseTarget ==
    /\ pc = "parseTarget"
    /\ ~pt.done
    /\ \E r \in {parseTarget(pt.raw)}, e \in {parseTargetErr(pt.raw)} :
         pt' = [done |-> TRUE, raw |-> pt.raw, res |-> r, err |-> e]
    /\ UNCHANGED <<mainVars, cs>>

NextPT == ParseTarget

SpecPT == InitPT /\ [][NextPT]_vars


----------------------------------------------------------------------------
(* Properties *)

Exited == pc = "exited"

ArgsFailures ==
    {"Too few arguments.", "Too many arguments.", "No host:port specified.",
     "No host:port specified, no protoset specified, and no proto sources specified.",
     "Use either -protoset files or -proto files, but not both.",
     "No protoset files or proto files specified and -use-reflection set to false."}

FlagFailures ==
    {"Target URL scheme 'https' requires TLS but -plaintext or -alts flag is set.",
     "The -connect-timeout argument must not be negative.",
     "The -keepalive-time argument must not be negative.",
     "The -max-time argument must not be negative.",
     "The -max-msg-sz argument must not be negative.",
     "The -plaintext and -alts arguments are mutually exclusive.",
     "The -insecure argument can only be used with TLS.",
     "The -cert argument can only be used with TLS.",
     "The -key argument can only be used with TLS.",
     "The -cert and -key arguments must be used together and both be present.",
     "The -alts-handshaker-service argument must be used with the -alts argument.",
     "The -alts-target-service-account argument must be used with the -alts argument.",
     "The -format option must be 'json' or 'text'."}

\* main has computed usetls and forcePlaintext (line 574 is behind it)
ModeChosen ==
    \/ pc \in {"sources", "reflection", "verb", "rpc", "return"}
    \/ Exited /\ out.site \notin ArgsFailures

\* a call of BlockingDial has been made
Dialed == dials # <<>>

\* C1: when a method is invoked, the exit code is 0 if the exchange ends with
\* status OK and 64 + code for every other status the RPC ends with, whether
\* or not -format-error is set; such an outcome never gives exit code 1 or 2.
C1_StatusExitCode ==
    Exited /\ inv.err \in {"nil", "status"} =>
        out.code = IF inv.err = "nil"
                   THEN (IF inv.hCode = OK THEN 0 ELSE statusCodeOffset + inv.hCode)
                   ELSE statusCodeOffset + inv.errCode

C3_HttpsNeedsTLS ==
    IsURL(parsedAddr) /\ parsedAddr.useTLS =>
        /\ fl.plaintext \/ fl.usealts =>
              /\ pc \in {"flags", "exited"}
              /\ ~Dialed
              /\ Exited => out.code = 2 /\ ~out.hasErr
              /\ Exited /\ out.site \notin ArgsFailures =>
                    out.site = "Target URL scheme 'https' requires TLS but -plaintext or -alts flag is set."
        /\ \A i \in 1..Len(dials) :
              dials[i].mode = "tls" /\ dials[i].creds = "tls"

C3_Witness ==
    /\ IsURL(parsedAddr) /\ parsedAddr.useTLS
    /\ fl.usealts
    /\ Exited
    /\ out.site = "Target URL scheme 'https' requires TLS but -plaintext or -alts flag is set."

\* C4: with an http URL target and neither -plaintext nor -alts, plaintext is
\* chosen without any error of the mode selection, and every dial is made
\* with no transport credentials, never in TLS mode.
C4_HttpIsPlaintext ==
    IsURL(parsedAddr) /\ ~parsedAddr.useTLS /\ ~fl.plaintext /\ ~fl.usealts =>
        /\ ModeChosen => tr = [usetls |-> FALSE, forcePlaintext |-> TRUE]
        /\ out.site \notin
              {"Target URL scheme 'https' requires TLS but -plaintext or -alts flag is set.",
               "The -plaintext and -alts arguments are mutually exclusive."}
        /\ \A i \in 1..Len(dials) :
              dials[i].mode = "plaintext" /\ dials[i].creds = "nil"

C4_Witness ==
    /\ IsURL(parsedAddr) /\ ~parsedAddr.useTLS /\ ~fl.plaintext /\ ~fl.usealts
    /\ Dialed
    /\ dials[1].ok /\ dials[1].creds = "nil"
    /\ cc = "open"

TLSOnlyFlag == fl.insecure \/ fl.cert # "" \/ fl.key # ""

\* C5, as claimed: when the mode is not TLS and one of -insecure, -cert, -key,
\* -servername is set, the run ends in a configuration error and never dials.
C5_TLSOnlyOptionsClaimed ==
    ModeChosen /\ ~tr.usetls /\ (TLSOnlyFlag \/ fl.serverName # "") =>
        /\ Exited /\ out.code \in {1, 2}
        /\ ~Dialed

\* C5, amended: when the mode is not TLS and one of -insecure, -cert, -key is
\* set, the run ends in fail with exit code 2 during the validation of the
\* flags and never dials; -servername is not checked, and outside TLS mode
\* no dial uses it.
C5_TLSOnlyOptions ==
    /\ ModeChosen /\ ~tr.usetls /\ TLSOnlyFlag =>
          /\ Exited /\ out.code = 2 /\ out.site \in FlagFailures
          /\ ~Dialed
    /\ \A i \in 1..Len(dials) :
          dials[i].mode # "tls" =>
              /\ dials[i].serverName = <<>>
              /\ dials[i].authority \in {"", fl.authority}

C5_Witness ==
    /\ ModeChosen /\ ~tr.usetls
    /\ fl.cert # "" /\ fl.key # ""
    /\ Exited
    /\ out.site = "The -cert argument can only be used with TLS."

UsageFailures ==
    ArgsFailures
    \cup {"The -connect-timeout argument must not be negative.",
          "The -keepalive-time argument must not be negative.",
          "The -max-time argument must not be negative.",
          "The -max-msg-sz argument must not be negative.",
          "The -format option must be 'json' or 'text'."}

\* an invalid combination of transport and credential flags, or flags that
\* contradict the URL scheme
ConfigurationFailures ==
    (FlagFailures \ UsageFailures)
    \cup {"Cannot specify different values for -servername and -authority."}

ConnectFailures ==
    {"Failed to create TLS config", "Could not open SSLKEYLOGFILE",
     "Failed to dial target host"}

SchemaFailures ==
    {"Failed to process proto descriptor sets.",
     "Failed to process proto source files.",
     "Failed to list services", "Failed to list methods for service",
     "Failed to resolve symbol", "Failed to describe symbol"}

\* C7, as claimed: usage errors exit with 2 and the help pointer;
\* configuration, connect and schema-resolution errors exit with 1.
C7_ExitClassesClaimed ==
    Exited =>
        /\ out.site \in UsageFailures => out.code = 2 /\ out.help
        /\ out.site \in ConfigurationFailures \cup ConnectFailures \cup SchemaFailures
              => out.code = 1 /\ ~out.help

\* C7, amended: usage errors and configuration errors (an invalid combination
\* of transport and credential flags, flags that contradict the URL scheme)
\* exit with 2 and the help pointer; connect errors and schema-resolution
\* errors exit with 1 and the detail of the underlying error.
C7_ExitClasses ==
    Exited =>
        /\ out.site \in UsageFailures \cup ConfigurationFailures =>
              out.code = 2 /\ out.help /\ ~out.hasErr
        /\ out.site \in ConnectFailures \cup SchemaFailures =>
              out.code = 1 /\ ~out.help /\ out.hasErr

C7_Witness ==
    /\ Exited
    /\ out.site = "The -insecure argument can only be used with TLS."
    /\ out.code = 2
    /\ out.help

ReflectionErrors ==
    {"reflection: not found", "reflection: rpc error",
     "reflection: missing file descriptor"}

\* C8: FindSymbol returns the reflection source's descriptor without asking
\* the file source when reflection succeeds; on every reflection failure it
\* asks the file source and returns its result, success or failure,
\* unchanged, and never the reflection error.
C8_FindSymbolFallback ==
    cs.op = "FindSymbol" =>
        /\ cs.reflection.find.err = "" =>
              /\ cs.ret = cs.reflection.find
              /\ cs.calls = <<"reflection">>
        /\ cs.reflection.find.err # "" =>
              /\ cs.ret = cs.file.find
              /\ cs.calls = <<"reflection", "file">>
        /\ cs.ret.err \notin ReflectionErrors

C8_Witness ==
    /\ cs.op = "FindSymbol"
    /\ cs.reflection.find.err = "reflection: rpc error"
    /\ cs.file.find.err = ""
    /\ cs.ret.val.from = "file"

\* the position of e in q
Pos(q, e) == CHOOSE k \in 1..Len(q) : q[k] = e

\* C9: when both sources succeed, AllExtensionsForType returns the reflection
\* extensions in their order, followed by exactly the file source's
\* extensions whose tag reflection did not produce, in their order; for a
\* tag that both have, the reflection extension alone.
C9_MergeExtensions ==
    cs.op = "AllExtensionsForType" /\ cs.reflection.exts.err = ""
        /\ cs.file.exts.err = "" =>
        LET R == cs.reflection.exts.val
            F == cs.file.exts.val
            X == cs.ret.val
            S == SubSeq(X, Len(R) + 1, Len(X))
            new == {F[i] : i \in {k \in 1..Len(F) : F[k].number \notin tagsOf(R)}}
        IN  /\ cs.ret.err = ""
            /\ Len(X) >= Len(R)
            /\ SubSeq(X, 1, Len(R)) = R
            /\ {S[i] : i \in 1..Len(S)} = new
            /\ Len(S) = Cardinality(new)
            /\ \A i, j \in 1..Len(S) : i < j => Pos(F, S[i]) < Pos(F, S[j])
            /\ \A i \in 1..Len(X) :
                  X[i].from = "file" => X[i].number \notin tagsOf(R)

C9_Witness ==
    /\ cs.op = "AllExtensionsForType"
    /\ cs.reflection.exts = Ok(<<[number |-> 5, from |-> "reflection"]>>)
    /\ cs.file.exts = Ok(<<[number |-> 5, from |-> "file"],
                           [number |-> 7, from |-> "file"]>>)
    /\ cs.ret = Ok(<<[number |-> 5, from |-> "reflection"],
                     [number |-> 7, from |-> "file"]>>)

\* C10: AllExtensionsForType returns the file source's result unchanged,
\* success or failure, when reflection fails; the reflection result alone and
\* no error when reflection succeeds and the file source fails; an error
\* only when both sources fail.
C10_ExtensionErrors ==
    cs.op = "AllExtensionsForType" =>
        /\ cs.reflection.exts.err # "" => cs.ret = cs.file.exts
        /\ cs.reflection.exts.err = "" /\ cs.file.exts.err # "" =>
              cs.ret = Ok(cs.reflection.exts.val)
        /\ cs.ret.err # "" =>
              cs.reflection.exts.err # "" /\ cs.file.exts.err # ""

C10_Witness ==
    /\ cs.op = "AllExtensionsForType"
    /\ cs.reflection.exts.err = ""
    /\ Len(cs.reflection.exts.val) > 0
    /\ cs.file.exts.err # ""
    /\ cs.ret = cs.reflection.exts

\* C11: ListServices returns exactly what the reflection source returned, a
\* list or an error, and asks the reflection source alone: the file source
\* is not queried and none of its services is in the listing, whatever it
\* holds and even when reflection fails.
C11_ListServicesReflectionOnly ==
    cs.op = "ListServices" =>
        /\ cs.ret = cs.reflection.svcs
        /\ cs.calls = <<"reflection">>
        /\ \A i \in 1..Len(cs.ret.val) : cs.ret.val[i] # "file.Service"

C11_Witness ==
    /\ cs.op = "ListServices"
    /\ cs.reflection.svcs = Err("reflection: rpc error")
    /\ cs.file.svcs = Ok(<<"file.Service">>)
    /\ cs.ret = Err("reflection: rpc error")

\* the inputs parseTarget takes for an http or https URL: no unix:// or
\* xds:/// prefix, and url.Parse gives the scheme http or https
AsHTTP(raw) ==
    /\ ~HasPrefix(raw, <<"unix", ":", "/", "/">>)
    /\ ~HasPrefix(raw, <<"xds", ":", "/", "/", "/">>)
    /\ ~urlParse(raw).err
    /\ urlParse(raw).Scheme \in {<<"http">>, <<"https">>}

\* C12: parseTarget returns a result and no error for every input, and for
\* every input not taken for an http or https URL the result has the raw
\* input as its address, wasURL false and useTLS false.
C12_ParseTargetTotal ==
    pt.done =>
        /\ pt.err = "nil"
        /\ ~IsNil(pt.res)
        /\ ~AsHTTP(pt.raw) =>
              /\ pt.res.address = pt.raw
              /\ ~pt.res.wasURL
              /\ ~pt.res.useTLS

C12_Witness ==
    /\ pt.done
    /\ urlParse(pt.raw).err
    /\ pt.err = "nil"
    /\ pt.res.address = pt.raw
    /\ ~pt.res.wasURL

\* C13: for every input parsed as an http or https URL the result has wasURL
\* true, useTLS true exactly for https, the URL's hostname as host, the
\* explicit port or else 80 for http and 443 for https as port, host:port
\* as address and the URL's path as path; wasURL is true for these inputs
\* only, so useTLS implies wasURL.
C13_HTTPTargets ==
    pt.done =>
        /\ AsHTTP(pt.raw) =>
              LET u == urlParse(pt.raw)
                  hp == splitHostPort(u.Host)
              IN  /\ pt.res.wasURL
                  /\ pt.res.useTLS = (u.Scheme = <<"https">>)
                  /\ pt.res.host = hp.host
                  /\ pt.res.port = IF hp.port # <<>> THEN hp.port
                                   ELSE IF u.Scheme = <<"http">> THEN <<"80">>
                                   ELSE <<"443">>
                  /\ pt.res.address = pt.res.host \o <<":">> \o pt.res.port
                  /\ pt.res.path = u.Path
        /\ pt.res.wasURL => AsHTTP(pt.raw)
        /\ pt.res.useTLS => pt.res.wasURL

C13_Witness ==
    /\ pt.done
    /\ pt.raw = <<"http", ":", "/", "/", "h", "/", "p">>
    /\ pt.res.wasURL /\ ~pt.res.useTLS
    /\ pt.res.address = <<"h", ":", "80">>
    /\ pt.res.path = <<"/", "p">>

\* C14: for every http or https URL whose host is a bracketed IPv6 literal
\* the address keeps the host in brackets: [addr]:port.
C14_IPv6Brackets ==
    pt.done /\ AsHTTP(pt.raw) /\ HasPrefix(urlParse(pt.raw).Host, <<"[">>) =>
        /\ HasPrefix(pt.res.address, <<"[">>)
        /\ pt.res.address =
              <<"[">> \o pt.res.host \o <<"]", ":">> \o pt.res.port

\* the connections BlockingDial returned, and whether the reflection client
\* was made
Acquired ==
    [cc |-> Cardinality({i \in 1..Len(dials) : dials[i].ok}),
     refClient |-> B(descSource \in {"reflection", "composite"})]

\* C15: when the process has terminated, by the return of main, by the exit
\* with 64 + status code or by fail, no handle is held any more: every
\* connection that was dialed has been closed and the reflection client, if
\* one was made, has been reset.
C15_ReleasedOnExit ==
    Exited =>
        /\ cc = "nil"
        /\ refClient = "nil"
        /\ released.Close = Acquired.cc
        /\ released.Reset = Acquired.refClient

C15_Witness ==
    /\ Exited
    /\ out.site = "Error invoking method"
    /\ Acquired = [cc |-> 1, refClient |-> 1]
    /\ released.Reset = 1 /\ released.Close = 1

\* C16: however often reset is invoked, the connection is closed at most
\* once and the reflection client is reset at most once; after its first
\* invocation no handle is held, and a further invocation releases nothing:
\* the releases stay those of the handles that were acquired.
C16_ResetIdempotent ==
    /\ released.Close <= 1
    /\ released.Reset <= 1
    /\ released.calls >= 1 =>
          /\ cc = "nil"
          /\ refClient = "nil"
          /\ released.Close = Acquired.cc
          /\ released.Reset = Acquired.refClient

C16_Witness ==
    /\ released.calls = 2
    /\ released.Close = 1
    /\ released.Reset = 1
    /\ cc = "nil" /\ refClient = "nil"

\* how many of plaintext, ALTS and TLS the run has active
ActiveModes == B(tr.forcePlaintext) + B(fl.usealts) + B(tr.usetls)

\* C17: once the flags have passed validation exactly one of plaintext, ALTS
\* and TLS is active, and every dial is made in that mode: in TLS mode
\* exactly when neither -plaintext nor -alts is set and the target is not an
\* http URL; dial never reaches its panic.
C17_OneMode ==
    /\ pc \in {"sources", "reflection", "verb", "rpc", "return"} \/ Dialed =>
          ActiveModes = 1
    /\ \A i \in 1..Len(dials) :
          /\ dials[i].mode \in {"plaintext", "alts", "tls"}
          /\ dials[i].mode = "plaintext" <=> tr.forcePlaintext
          /\ dials[i].mode = "alts" <=> fl.usealts
          /\ dials[i].mode = "tls" <=>
                /\ ~fl.plaintext /\ ~fl.usealts
                /\ ~(IsURL(parsedAddr) /\ ~parsedAddr.useTLS)
    /\ out.site # "panic: Should have defaulted to use TLS."

C17_Witness ==
    /\ Dialed
    /\ dials[1].mode = "tls"
    /\ ~IsURL(parsedAddr)
    /\ ~fl.plaintext /\ ~fl.usealts
    /\ ActiveModes = 1

\* line 749 is behind main: the headers are complete
HeadersBuilt == pc \in {"reflection", "verb", "rpc", "return"} \/ Dialed

\* C18: the x-grpc-path entry is among the headers exactly when the target
\* was an http or https URL whose path is neither empty nor /, and its value
\* is that path; the address given to BlockingDial is host:port of the URL
\* (behind unix:// under -unix) and holds no part of the path.
C18_PathHeader ==
    /\ addlHeaders # <<>> =>
          /\ IsURL(parsedAddr)
          /\ parsedAddr.path \notin {<<>>, <<"/">>}
          /\ addlHeaders = <<[name |-> "x-grpc-path", value |-> parsedAddr.path]>>
    /\ HeadersBuilt /\ IsURL(parsedAddr)
          /\ parsedAddr.path \notin {<<>>, <<"/">>} => addlHeaders # <<>>
    /\ \A i \in 1..Len(dials) :
          IsURL(parsedAddr) =>
              /\ dials[i].target \in
                    {parsedAddr.host \o <<":">> \o parsedAddr.port,
                     <<"unix", ":", "/", "/">> \o parsedAddr.host \o <<":">>
                         \o parsedAddr.port}
              /\ \A k \in 5..Len(dials[i].target) : dials[i].target[k] # "/"

C18_Witness ==
    /\ Dialed
    /\ IsURL(parsedAddr)
    /\ parsedAddr.path = <<"/", "p">>
    /\ addlHeaders = <<[name |-> "x-grpc-path", value |-> <<"/", "p">>]>>
    /\ dials[1].target = <<"h", ":", "1">>

\* C19: a run calls BlockingDial at most once: an invocation under
\* reflection goes over the connection dialed for reflection, a dial that
\* fails ends the run in fail, and a list or describe run whose descriptor
\* source is the file source alone never dials.
C19_AtMostOneDial ==
    /\ Len(dials) <= 1
    /\ \A i \in 1..Len(dials) :
          ~dials[i].ok =>
              /\ Exited
              /\ out.site = "Failed to dial target host"
              /\ out.code = 1
              /\ cc = "nil"
    /\ pc \in {"rpc", "return"} /\ verb = "invoke" => Len(dials) = 1
    /\ verb \in {"list", "describe"} /\ descSource = "file" => ~Dialed

C19_Witness ==
    /\ verb = "invoke"
    /\ descSource = "reflection"
    /\ pc = "return"
    /\ Len(dials) = 1
    /\ dials[1].ok

\* C20: BlockingDial is never called with an empty target address: a run
\* whose positional address is omitted (list or describe with -protoset or
\* -proto, -use-reflection=true included) makes no dial.
C20_NoEmptyDial ==
    /\ \A i \in 1..Len(dials) :
          dials[i].target \notin {<<>>, <<"unix", ":", "/", "/">>}
    /\ pc # "args" /\ IsNil(parsedAddr) => ~Dialed

====
